---- MODULE Spec2Model ----
(***************************************************************************)
(* Space admission and participation-record lifecycle of the space routes  *)
(* (POST/PATCH/DELETE /spaces, /spaces/:id/participate and                 *)
(* /spaces/:spaceId/candidates/:candId/{accept,reject,cancel}, and the     *)
(* participants, candidates and password queries) over the Space and       *)
(* Participate collections.                                                *)
(*                                                                         *)
(* Spec     : every handler runs as one step (requests one after another); *)
(*            one space, created with any body, patched and deleted.       *)
(* SpecTwo  : every handler runs as one step; two spaces, open or lobby.   *)
(* SpecConc : participate is split at its awaits, one step per store       *)
(*            operation, so that requests interleave; one space, which     *)
(*            may be deleted and queried.                                  *)
(* SpecRace : accept, reject and cancel are split at their awaits; one     *)
(*            lobby space and the records of one requester.                *)
(* SpecPersonal : login with its personal space, and the client's enter   *)
(*            and exit of a space, next to post, patch, delete and the     *)
(*            list and get-by-name queries.                                *)
(***************************************************************************)
EXTENDS Integers, FiniteSets, Sequences, TLC

\* ------------------------------------------------------------------ bounds
\* Participate documents ever created (ObjectIds are never reused).
MaxRecs == 2
\* Requests that may be in flight at once in SpecConc.
MaxInflight == 2

\* ------------------------------------------------------------- value sets
UserIds  == {"u1", "u2"}
SpaceIds == {"s1", "s2"}
CandIds  == 1..MaxRecs

\* A JavaScript undefined (a field missing from a body or a document).
Undefined == "undefined"
\* Passwords a request body may carry / a patch or create body may carry.
SuppliedPasswords == {Undefined, "", "a", "b"}
BodyPasswords     == {Undefined, "", "a"}
\* An optional boolean of a JSON body: missing, true or false.
BodyFlags         == {Undefined, "true", "false"}

\* JavaScript truthiness of an optional string: `!x` is true of undefined and ''.
Truthy(x) == x # Undefined /\ x # ""

\* findById() result for an id with no document.
NoDoc == [exists |-> FALSE]

VARIABLES
  spaces,    \* Space collection: SpaceIds -> document or NoDoc
  parts,     \* Participate collection: set of documents
  nextId,    \* next fresh Participate _id
  inflight,  \* request slot -> handler position and locals (SpecConc, SpecRace)
  last,      \* the last completed request and its response
  users,     \* User collection: the vmeetingIds that have a document
  client     \* per user, the browser's stored token and current space

vars == <<spaces, parts, nextId, inflight, last, users, client>>

\* ---------------------------------------------------------------- schemas
\* spaceSchema with its defaults (isPersonal false, useYN true); of its fields
\* the ones the admission logic reads or the owner's requests guard.
SpaceDoc(name, owner, priv, lobby, pw) ==
  [exists |-> TRUE, name |-> name, ownerId |-> owner, isPersonal |-> FALSE,
   privateYN |-> priv, lobbyYN |-> lobby, password |-> pw, useYN |-> TRUE]

\* participateSchema: the status enum.
Statuses == {"REJECTED", "ACCEPTED", "WAITING", "CANCELED"}

ParticipateDoc(id, u, s, st) ==
  [id |-> id, userId |-> u, spaceId |-> s, status |-> st]

\* ------------------------------------------------------- store operations
Space_findById(s) == spaces[s]

\* Variant: a soft-deleted space counts as present.
SpaceMissing_ignoresUseYN(sp) == ~sp.exists

\* `!space || !space.useYN`
SpaceMissing(sp) == ~sp.exists \/ ~sp.useYN

Participate_findById(ps, c) == {p \in ps : p.id = c}

\* Variant: create() replaces the documents of the pair (an upsert).
Participate_create_upsert(ps, id, u, s, st) ==
  {p \in ps : ~(p.userId = u /\ p.spaceId = s)} \cup {ParticipateDoc(id, u, s, st)}

Participate_create(ps, id, u, s, st) == ps \cup {ParticipateDoc(id, u, s, st)}

\* Variant: deleteMany() filtered on status WAITING as well.
Participate_deleteMany_waiting(ps, u, s) ==
  {p \in ps : ~(p.userId = u /\ p.spaceId = s /\ p.status = "WAITING")}

Participate_deleteMany(ps, u, s) == {p \in ps : ~(p.userId = u /\ p.spaceId = s)}

\* Variant: the update is filtered on status WAITING (the first write wins).
Participate_updateOne_ifWaiting(ps, c, st) ==
  {IF p.id = c /\ p.status = "WAITING" THEN [p EXCEPT !.status = st] ELSE p : p \in ps}

\* Variant: an updateMany() over the records of the (user, space) pair of c.
Participate_updateOne_pair(ps, c, st) ==
  {IF \E q \in ps : q.id = c /\ q.userId = p.userId /\ q.spaceId = p.spaceId
   THEN [p EXCEPT !.status = st] ELSE p : p \in ps}

Participate_updateOne(ps, c, st) ==
  {IF p.id = c THEN [p EXCEPT !.status = st] ELSE p : p \in ps}

\* Mongoose strips undefined keys from an update document: the field keeps
\* its stored value.
SetField(old, new) == IF new = Undefined THEN old ELSE new
SetFlag(old, new) == IF new = Undefined THEN old ELSE (new = "true")

\* -------------------------------------------------------------- responses
\* res.status(code).json({ error: [...] }) / res.status(200)
ErrItem(type, target, message) == [type |-> type, target |-> target, message |-> message]
Ok == [code |-> 200, error |-> {}]
Err(code, items) == [code |-> code, error |-> items]

SpaceNotExist(target) == Err(400, {ErrItem("INVALID_INPUT", target, "Space is not exist")})
CandNotExist == Err(400, {ErrItem("INVALID_INPUT", "param.candId", "Candidate is not exist")})
PasswordWrong == Err(400, {ErrItem("INVALID_INPUT", "password", "Password is wrong")})
Forbidden(target, message) == Err(403, {ErrItem("FORBIDDEN", target, message)})
\* The answer of a handler's catch block.
ServerError == Err(500, {ErrItem("SERVER_ERROR", "internal", "")})

\* The request that completed last (req.ctx.userId and the space named in
\* its path) and what it sent back: the response, and for participate the
\* candId and status of its body.
Done(op, u, s, res, c, st) ==
  [op |-> op, user |-> u, space |-> s, res |-> res, cand |-> c, status |-> st]

NoCand == 0

\* A browser with no token in localStorage and `{}` as current space.
NoClient == [jwt |-> FALSE, curSpace |-> NoDoc]

Init ==
  /\ spaces = [s \in SpaceIds |-> NoDoc]
  /\ parts = {}
  /\ nextId = 1
  /\ inflight = [r \in 1..MaxInflight |-> [pc |-> "idle"]]
  /\ last = Done("none", Undefined, Undefined, Ok, NoCand, "")
  /\ users = {}
  /\ client = [u \in UserIds |-> NoClient]

\* ------------------------------------------------------------ POST /spaces
\* The least unused id stands for the fresh ObjectId of Space.create().
SpaceOrder == <<"s1", "s2">>
FreshSpace ==
  SpaceOrder[CHOOSE i \in 1..Len(SpaceOrder) :
                /\ ~spaces[SpaceOrder[i]].exists
                /\ \A j \in 1..(i - 1) : spaces[SpaceOrder[j]].exists]

\* The body's name is valid: a string that no space carries and no user has
\* as username.  It is written as the id of the new document.
FreshName == FreshSpace

\* Validation of privateYN, lobbyYN and password (typeId and name are valid).
PostSpaceErrors(lobbyYN, privateYN, password) ==
  (IF lobbyYN = Undefined THEN {ErrItem("INPUT_NOT_EXIST", "lobbyYN", "")} ELSE {})
  \cup (IF privateYN = Undefined THEN {ErrItem("INPUT_NOT_EXIST", "privateYN", "")} ELSE {})
  \cup (IF privateYN = "true" /\ ~Truthy(password)
        THEN {ErrItem("INPUT_NOT_EXIST", "password", "")} ELSE {})

PostSpace(u, lobbyYN, privateYN, password) ==
  LET error == PostSpaceErrors(lobbyYN, privateYN, password) IN
  /\ \E s \in SpaceIds : ~spaces[s].exists
  /\ IF error # {}
     THEN /\ last' = Done("postSpace", u, Undefined, Err(400, error), NoCand, "")
          /\ UNCHANGED spaces
     ELSE /\ spaces' = [spaces EXCEPT ![FreshSpace] = SpaceDoc(FreshName, u, privateYN = "true", lobbyYN = "true", password)]
          /\ last' = Done("postSpace", u, FreshSpace, Ok, NoCand, "")
  /\ UNCHANGED <<parts, nextId, inflight, users, client>>

\* ------------------------------------------------------- PATCH /spaces/:id
PatchSpaceErrors(privateYN, password) ==
  (IF privateYN = "true" /\ ~Truthy(password)
   THEN {ErrItem("INVALID_INPUT", "password", "Password is not exist")} ELSE {})
  \cup (IF privateYN = "true" /\ password = Undefined
        THEN {ErrItem("INVALID_INPUT", "password", "")} ELSE {})

\* The bodies drawn carry password, privateYN and lobbyYN only (notice,
\* mediaBoardNetId and the open...YN flags are left out of the body).
PatchSpace(u, s, password, privateYN, lobbyYN) ==
  LET space == Space_findById(s)
      error == PatchSpaceErrors(privateYN, password)
      reply(res) == /\ last' = Done("patchSpace", u, s, res, NoCand, "")
                    /\ UNCHANGED spaces
  IN
  /\ IF SpaceMissing(space) THEN reply(SpaceNotExist("param.id"))
     ELSE IF space.ownerId # u
       THEN reply(Forbidden("param.id", "Only the owner can modify info"))
     ELSE IF privateYN = Undefined /\ lobbyYN = Undefined
       THEN reply(Err(400, {ErrItem("INPUT_NOT_EXIST", "reqBody", "")}))
     ELSE IF error # {} THEN reply(Err(400, error))
     ELSE /\ spaces' = [spaces EXCEPT ![s] =
                 [space EXCEPT !.password = SetField(@, password),
                               !.privateYN = SetFlag(@, privateYN),
                               !.lobbyYN = SetFlag(@, lobbyYN)]]
          /\ last' = Done("patchSpace", u, s, Ok, NoCand, "")
  /\ UNCHANGED <<parts, nextId, inflight, users, client>>

\* ---------------------------------------------------------- GET /spaces/:id
\* The space object of a response: the stored fields it carries.
SpaceRes(s, space) ==
  [exists |-> TRUE, id |-> s, name |-> space.name, ownerId |-> space.ownerId,
   isPersonal |-> space.isPersonal, privateYN |-> space.privateYN,
   lobbyYN |-> space.lobbyYN]

GetSpaceOut(s) ==
  LET space == Space_findById(s) IN
  IF SpaceMissing(space) THEN [res |-> SpaceNotExist("param.id"), space |-> NoDoc]
  ELSE [res |-> Ok, space |-> SpaceRes(s, space)]

\* --------------------------------------------------------------- GET /spaces
\* Variant: the list filters on useYN alone.
ListSpacesOut_withPersonal ==
  [res |-> Ok,
   spaces |-> {SpaceRes(s, spaces[s]) : s \in {t \in SpaceIds : spaces[t].exists /\ spaces[t].useYN}}]

\* Space.find({ isPersonal: false, useYN: true }), one entry per document
\* (the order of the array is left out).
ListSpacesOut ==
  [res |-> Ok,
   spaces |-> {SpaceRes(s, spaces[s]) :
                 s \in {t \in SpaceIds : /\ spaces[t].exists /\ ~spaces[t].isPersonal
                                          /\ spaces[t].useYN}}]

ListSpaces ==
  /\ last' = Done("listSpaces", Undefined, Undefined, ListSpacesOut.res, NoCand, "")
  /\ UNCHANGED <<spaces, parts, nextId, inflight, users, client>>

\* ---------------------------------------------------- GET /spaces/name/:name
\* Space.findOne({ name }): names are unique, so at most one document matches.
Space_findOne_name(n) ==
  LET found == {s \in SpaceIds : spaces[s].exists /\ spaces[s].name = n} IN
  IF found = {} THEN [id |-> Undefined, doc |-> NoDoc]
  ELSE LET s == CHOOSE t \in found : TRUE IN [id |-> s, doc |-> spaces[s]]

GetSpaceByNameOut(n) ==
  LET space == Space_findOne_name(n) IN
  IF SpaceMissing(space.doc) THEN [res |-> SpaceNotExist("param.name"), space |-> NoDoc]
  ELSE [res |-> Ok, space |-> SpaceRes(space.id, space.doc)]

\* The space field of the completed request holds the name asked for.
GetSpaceByName(n) ==
  /\ last' = Done("getSpaceByName", Undefined, n, GetSpaceByNameOut(n).res, NoCand, "")
  /\ UNCHANGED <<spaces, parts, nextId, inflight, users, client>>

\* -------------------------------------------------- GET /spaces/:id/password
NotPrivate == Err(400, {ErrItem("INVALID_INPUT", "param.privateYN", "Not a private space")})

\* The handler does not read req.ctx.userId; u is the caller the answer goes to.
GetPasswordOut(u, s) ==
  LET space == Space_findById(s) IN
  IF SpaceMissing(space) THEN [res |-> SpaceNotExist("param.id"), password |-> Undefined]
  ELSE IF ~space.privateYN THEN [res |-> NotPrivate, password |-> Undefined]
  ELSE [res |-> Ok, password |-> space.password]

GetPassword(u, s) ==
  /\ last' = Done("getPassword", u, s, GetPasswordOut(u, s).res, NoCand, "")
  /\ UNCHANGED <<spaces, parts, nextId, inflight, users, client>>

\* ------------------------------------------------------ DELETE /spaces/:id
\* Variant: the caller is not compared with the owner.
DeleteSpaceOut_noOwnerCheck(u, s) ==
  LET space == Space_findById(s)
      reply(res) == [spaces |-> spaces, last |-> Done("deleteSpace", u, s, res, NoCand, "")]
  IN
  IF SpaceMissing(space) THEN reply(SpaceNotExist("param.id"))
  ELSE IF space.isPersonal
    THEN reply(Forbidden("param.id", "Personal space cannot be deleted"))
  ELSE [spaces |-> [spaces EXCEPT ![s].useYN = FALSE],
        last |-> Done("deleteSpace", u, s, Ok, NoCand, "")]

\* Variant: a personal space is deleted like any other.
DeleteSpaceOut_personalToo(u, s) ==
  LET space == Space_findById(s)
      reply(res) == [spaces |-> spaces, last |-> Done("deleteSpace", u, s, res, NoCand, "")]
  IN
  IF SpaceMissing(space) THEN reply(SpaceNotExist("param.id"))
  ELSE IF space.ownerId # u
    THEN reply(Forbidden("param.id", "Only the owner can modify info"))
  ELSE [spaces |-> [spaces EXCEPT ![s].useYN = FALSE],
        last |-> Done("deleteSpace", u, s, Ok, NoCand, "")]

\* Variant: the document is removed from the collection.
DeleteSpaceOut_remove(u, s) ==
  LET space == Space_findById(s)
      reply(res) == [spaces |-> spaces, last |-> Done("deleteSpace", u, s, res, NoCand, "")]
  IN
  IF SpaceMissing(space) THEN reply(SpaceNotExist("param.id"))
  ELSE IF space.ownerId # u
    THEN reply(Forbidden("param.id", "Only the owner can modify info"))
  ELSE IF space.isPersonal
    THEN reply(Forbidden("param.id", "Personal space cannot be deleted"))
  ELSE [spaces |-> [spaces EXCEPT ![s] = NoDoc],
        last |-> Done("deleteSpace", u, s, Ok, NoCand, "")]

\* What the handler leaves in the Space collection and sends back.
DeleteSpaceOut(u, s) ==
  LET space == Space_findById(s)
      reply(res) == [spaces |-> spaces, last |-> Done("deleteSpace", u, s, res, NoCand, "")]
  IN
  IF SpaceMissing(space) THEN reply(SpaceNotExist("param.id"))
  ELSE IF space.ownerId # u
    THEN reply(Forbidden("param.id", "Only the owner can modify info"))
  ELSE IF space.isPersonal
    THEN reply(Forbidden("param.id", "Personal space cannot be deleted"))
  ELSE [spaces |-> [spaces EXCEPT ![s].useYN = FALSE],
        last |-> Done("deleteSpace", u, s, Ok, NoCand, "")]

DeleteSpace(u, s) ==
  /\ spaces' = DeleteSpaceOut(u, s).spaces
  /\ last' = DeleteSpaceOut(u, s).last
  /\ UNCHANGED <<parts, nextId, inflight, users, client>>

\* ------------------------------------------------ POST /spaces/:id/participate
\* Variant: no owner short-circuit.
ParticipateBranch_noOwner(space, userId, password) ==
  IF SpaceMissing(space) THEN "notfound"
  ELSE IF space.lobbyYN
    THEN IF Truthy(password) /\ space.privateYN /\ space.password = password
         THEN "lobbyPassword" ELSE "queue"
  ELSE IF ~space.privateYN THEN "open"
  ELSE IF space.password = password THEN "password"
  ELSE "wrongPassword"

\* Variant: the lobby branch compares the password without looking at privateYN.
ParticipateBranch_lobbyAnyPassword(space, userId, password) ==
  IF SpaceMissing(space) THEN "notfound"
  ELSE IF userId = space.ownerId THEN "owner"
  ELSE IF space.lobbyYN
    THEN IF Truthy(password) /\ space.password = password
         THEN "lobbyPassword" ELSE "queue"
  ELSE IF ~space.privateYN THEN "open"
  ELSE IF space.password = password THEN "password"
  ELSE "wrongPassword"

\* Variant: without a lobby the password is compared also when privateYN is false.
ParticipateBranch_alwaysPassword(space, userId, password) ==
  IF SpaceMissing(space) THEN "notfound"
  ELSE IF userId = space.ownerId THEN "owner"
  ELSE IF space.lobbyYN
    THEN IF Truthy(password) /\ space.privateYN /\ space.password = password
         THEN "lobbyPassword" ELSE "queue"
  ELSE IF space.password = password THEN "password"
  ELSE "wrongPassword"

\* Variant: a wrong password on a private space without lobby queues the request.
ParticipateBranch_wrongQueues(space, userId, password) ==
  IF SpaceMissing(space) THEN "notfound"
  ELSE IF userId = space.ownerId THEN "owner"
  ELSE IF space.lobbyYN
    THEN IF Truthy(password) /\ space.privateYN /\ space.password = password
         THEN "lobbyPassword" ELSE "queue"
  ELSE IF ~space.privateYN THEN "open"
  ELSE IF space.password = password THEN "password"
  ELSE "queue"

\* The branch the handler takes once the space has been loaded.
ParticipateBranch(space, userId, password) ==
  IF SpaceMissing(space) THEN "notfound"
  ELSE IF userId = space.ownerId THEN "owner"
  ELSE IF space.lobbyYN
    THEN IF Truthy(password) /\ space.privateYN /\ space.password = password
         THEN "lobbyPassword" ELSE "queue"
  ELSE IF ~space.privateYN THEN "open"
  ELSE IF space.password = password THEN "password"
  ELSE "wrongPassword"

AcceptBranches == {"owner", "lobbyPassword", "open", "password"}

\* Variant: an accepted request discards the earlier records of its pair too.
ParticipateOut_acceptSupersedes(u, s, pw) ==
  LET space  == Space_findById(s)
      branch == ParticipateBranch(space, u, pw)
  IN
  CASE branch = "notfound" ->
         [parts |-> parts, nextId |-> nextId,
          last |-> Done("participate", u, s, SpaceNotExist("param.id"), NoCand, "")]
    [] branch = "wrongPassword" ->
         [parts |-> parts, nextId |-> nextId,
          last |-> Done("participate", u, s, PasswordWrong, NoCand, "")]
    [] branch = "queue" ->
         [parts |-> Participate_create(Participate_deleteMany(parts, u, s),
                                       nextId, u, s, "WAITING"),
          nextId |-> nextId + 1,
          last |-> Done("participate", u, s, Ok, nextId, "WAITING")]
    [] OTHER ->
         [parts |-> Participate_create(Participate_deleteMany(parts, u, s),
                                       nextId, u, s, "ACCEPTED"),
          nextId |-> nextId + 1,
          last |-> Done("participate", u, s, Ok, nextId, "ACCEPTED")]

\* Variant: a queued request is stored as REJECTED when the space is private.
ParticipateOut_queueRejected(u, s, pw) ==
  LET space  == Space_findById(s)
      branch == ParticipateBranch(space, u, pw)
  IN
  CASE branch = "notfound" ->
         [parts |-> parts, nextId |-> nextId,
          last |-> Done("participate", u, s, SpaceNotExist("param.id"), NoCand, "")]
    [] branch = "wrongPassword" ->
         [parts |-> parts, nextId |-> nextId,
          last |-> Done("participate", u, s, PasswordWrong, NoCand, "")]
    [] branch = "queue" ->
         [parts |-> Participate_create(Participate_deleteMany(parts, u, s), nextId, u, s,
                                       IF space.privateYN THEN "REJECTED" ELSE "WAITING"),
          nextId |-> nextId + 1,
          last |-> Done("participate", u, s, Ok, nextId, "WAITING")]
    [] OTHER ->
         [parts |-> Participate_create(parts, nextId, u, s, "ACCEPTED"),
          nextId |-> nextId + 1,
          last |-> Done("participate", u, s, Ok, nextId, "ACCEPTED")]

\* What the handler leaves in the Participate collection and sends back.
ParticipateOut(u, s, pw) ==
  LET space  == Space_findById(s)
      branch == ParticipateBranch(space, u, pw)
  IN
  CASE branch = "notfound" ->
         [parts |-> parts, nextId |-> nextId,
          last |-> Done("participate", u, s, SpaceNotExist("param.id"), NoCand, "")]
    [] branch = "wrongPassword" ->
         [parts |-> parts, nextId |-> nextId,
          last |-> Done("participate", u, s, PasswordWrong, NoCand, "")]
    [] branch = "queue" ->
         [parts |-> Participate_create(Participate_deleteMany(parts, u, s),
                                       nextId, u, s, "WAITING"),
          nextId |-> nextId + 1,
          last |-> Done("participate", u, s, Ok, nextId, "WAITING")]
    [] OTHER ->
         [parts |-> Participate_create(parts, nextId, u, s, "ACCEPTED"),
          nextId |-> nextId + 1,
          last |-> Done("participate", u, s, Ok, nextId, "ACCEPTED")]

\* A request that creates a document needs a fresh id (ids are capped at MaxRecs).
ParticipateEnabled(u, s, pw) ==
  ParticipateBranch(Space_findById(s), u, pw) \in AcceptBranches \cup {"queue"}
    => nextId <= MaxRecs

Participate(u, s, pw) ==
  /\ ParticipateEnabled(u, s, pw)
  /\ parts' = ParticipateOut(u, s, pw).parts
  /\ nextId' = ParticipateOut(u, s, pw).nextId
  /\ last' = ParticipateOut(u, s, pw).last
  /\ UNCHANGED <<spaces, inflight, users, client>>

\* The handler when its Participate.create() rejects (the store fails): the
\* catch block answers 500; in the queue branch deleteMany() has completed.
ParticipateThrowsOut(u, s, pw) ==
  LET space  == Space_findById(s)
      branch == ParticipateBranch(space, u, pw)
  IN
  [parts |-> IF branch = "queue" THEN Participate_deleteMany(parts, u, s) ELSE parts,
   last |-> Done("participate", u, s, ServerError, NoCand, "")]

ParticipateThrows(u, s, pw) ==
  /\ ParticipateBranch(Space_findById(s), u, pw) \in AcceptBranches \cup {"queue"}
  /\ parts' = ParticipateThrowsOut(u, s, pw).parts
  /\ last' = ParticipateThrowsOut(u, s, pw).last
  /\ UNCHANGED <<spaces, nextId, inflight, users, client>>

\* --------------------- POST /spaces/:spaceId/candidates/:candId/accept|reject
\* Variant: the caller is not compared with the owner of the space.
DecideOut_noOwnerCheck(op, status, u, s, c) ==
  LET space == Space_findById(s)
      participate == Participate_findById(parts, c)
      reply(res) == [parts |-> parts, last |-> Done(op, u, s, res, c, "")]
  IN
  IF SpaceMissing(space) THEN reply(SpaceNotExist("param.spaceId"))
  ELSE IF participate = {} THEN reply(CandNotExist)
  ELSE [parts |-> Participate_updateOne(parts, c, status), last |-> Done(op, u, s, Ok, c, "")]

\* Variant: a record that is no longer WAITING is refused.
DecideOut_waitingOnly(op, status, u, s, c) ==
  LET space == Space_findById(s)
      participate == Participate_findById(parts, c)
      reply(res) == [parts |-> parts, last |-> Done(op, u, s, res, c, "")]
  IN
  IF SpaceMissing(space) THEN reply(SpaceNotExist("param.spaceId"))
  ELSE IF participate = {} THEN reply(CandNotExist)
  ELSE IF space.ownerId # u
    THEN reply(Forbidden("param.spaceId", "Only owner can accept"))
  ELSE IF \E p \in participate : p.status # "WAITING" THEN reply(CandNotExist)
  ELSE [parts |-> Participate_updateOne(parts, c, status), last |-> Done(op, u, s, Ok, c, "")]

\* accept and reject differ in the status written and nothing else.
DecideOut(op, status, u, s, c) ==
  LET space == Space_findById(s)
      participate == Participate_findById(parts, c)
      reply(res) == [parts |-> parts, last |-> Done(op, u, s, res, c, "")]
  IN
  IF SpaceMissing(space) THEN reply(SpaceNotExist("param.spaceId"))
  ELSE IF participate = {} THEN reply(CandNotExist)
  ELSE IF space.ownerId # u
    THEN reply(Forbidden("param.spaceId", "Only owner can accept"))
  ELSE [parts |-> Participate_updateOne(parts, c, status), last |-> Done(op, u, s, Ok, c, "")]

AcceptOut(u, s, c) == DecideOut("accept", "ACCEPTED", u, s, c)

RejectOut(u, s, c) == DecideOut("reject", "REJECTED", u, s, c)

Accept(u, s, c) ==
  /\ parts' = AcceptOut(u, s, c).parts
  /\ last' = AcceptOut(u, s, c).last
  /\ UNCHANGED <<spaces, nextId, inflight, users, client>>

Reject(u, s, c) ==
  /\ parts' = RejectOut(u, s, c).parts
  /\ last' = RejectOut(u, s, c).last
  /\ UNCHANGED <<spaces, nextId, inflight, users, client>>

\* ------------------------- POST /spaces/:spaceId/candidates/:candId/cancel
\* Variant: only the user who made the request may cancel it.
CancelOut_requesterOnly(u, s, c) ==
  LET space == Space_findById(s)
      participate == Participate_findById(parts, c)
      reply(res) == [parts |-> parts, last |-> Done("cancel", u, s, res, c, "")]
  IN
  IF SpaceMissing(space) THEN reply(SpaceNotExist("param.spaceId"))
  ELSE IF participate = {} THEN reply(CandNotExist)
  ELSE IF \E p \in participate : p.userId # u
    THEN reply(Forbidden("param.candId", "Only requester can cancel"))
  ELSE [parts |-> Participate_updateOne(parts, c, "CANCELED"),
        last |-> Done("cancel", u, s, Ok, c, "")]

CancelOut(u, s, c) ==
  LET space == Space_findById(s)
      participate == Participate_findById(parts, c)
      reply(res) == [parts |-> parts, last |-> Done("cancel", u, s, res, c, "")]
  IN
  IF SpaceMissing(space) THEN reply(SpaceNotExist("param.spaceId"))
  ELSE IF participate = {} THEN reply(CandNotExist)
  ELSE [parts |-> Participate_updateOne(parts, c, "CANCELED"),
        last |-> Done("cancel", u, s, Ok, c, "")]

Cancel(u, s, c) ==
  /\ parts' = CancelOut(u, s, c).parts
  /\ last' = CancelOut(u, s, c).last
  /\ UNCHANGED <<spaces, nextId, inflight, users, client>>

\* --------------------------------------------- GET /spaces/:id/participants
\* Participate.find({ spaceId, status }) with the statuses of the filter.
Participate_find(ps, s, sts) == {p \in ps : p.spaceId = s /\ p.status \in sts}

\* One entry of the participants array: the record's _id and the populated
\* user (every userId of a record is the _id of a User document).
ParticipantEntry(p) == [participantId |-> p.id, user |-> p.userId]

\* Variant: the query filters on the status alone.
ParticipantsOf_anySpace(ps, s) ==
  {ParticipantEntry(p) : p \in {q \in ps : q.status = "ACCEPTED"}}

\* The array built from the documents found, one entry per document (the
\* order of the array is left out).
ParticipantsOf(ps, s) == {ParticipantEntry(p) : p \in Participate_find(ps, s, {"ACCEPTED"})}

\* The response the caller receives (for a space that is missing, the 400
\* sent first), the Participate.find() calls made and the status codes of the
\* res.status().json() calls in the order the handler makes them.  The 400 is
\* not followed by a return: the handler goes on to find() and to the 200,
\* which throws as the headers are sent, and the catch block's 500 follows.
ParticipantsOut(s) ==
  LET space == Space_findById(s) IN
  IF SpaceMissing(space)
  THEN [res |-> SpaceNotExist("param.id"), participants |-> {},
        finds |-> 1, sent |-> <<400, 200, 500>>]
  ELSE [res |-> Ok, participants |-> ParticipantsOf(parts, s),
        finds |-> 1, sent |-> <<200>>]

\* The handler reads no caller id and writes nothing.
GetParticipants(s) ==
  /\ last' = Done("participants", Undefined, s, ParticipantsOut(s).res, NoCand, "")
  /\ UNCHANGED <<spaces, parts, nextId, inflight, users, client>>

\* ----------------------------------------------- GET /spaces/:id/candidates
CandidateEntry(p) == [participantId |-> p.id, status |-> p.status, user |-> p.userId]

\* Variant: the query filters on the space alone.
CandidatesOf_anyStatus(ps, s) ==
  {CandidateEntry(p) : p \in Participate_find(ps, s, Statuses)}

\* Variant: the query finds the WAITING documents only.
CandidatesOf_waitingOnly(ps, s) ==
  {CandidateEntry(p) : p \in Participate_find(ps, s, {"WAITING"})}

\* find({ $or: [{status: 'WAITING'}, {status: 'CANCELED'}], $and: [{ spaceId }] })
CandidatesOf(ps, s) ==
  {CandidateEntry(p) : p \in Participate_find(ps, s, {"WAITING", "CANCELED"})}

\* The 400 is followed by a return.
CandidatesOut(s) ==
  LET space == Space_findById(s) IN
  IF SpaceMissing(space)
  THEN [res |-> SpaceNotExist("param.id"), candidates |-> {},
        finds |-> 0, sent |-> <<400>>]
  ELSE [res |-> Ok, candidates |-> CandidatesOf(parts, s),
        finds |-> 1, sent |-> <<200>>]

\* req.ctx.userId is read and not used.
GetCandidates(s) ==
  /\ last' = Done("candidates", Undefined, s, CandidatesOut(s).res, NoCand, "")
  /\ UNCHANGED <<spaces, parts, nextId, inflight, users, client>>

\* ------------------------------------------------------------------- Spec
\* The requests drawn name a space id that Space.create() has issued.
Issued(s) == spaces[s].exists

NoSpaceYet == \A s \in SpaceIds : ~spaces[s].exists

\* A patch that is answered before its body is read (space missing, caller
\* not the owner) is drawn with one body, { lobbyYN: true }.
PatchReadsBody(u, s) == ~SpaceMissing(spaces[s]) /\ spaces[s].ownerId = u

PatchAny ==
  \E u \in UserIds, s \in SpaceIds, pw \in BodyPasswords, p \in BodyFlags, l \in BodyFlags :
    /\ Issued(s)
    /\ PatchReadsBody(u, s) \/ (pw = Undefined /\ p = Undefined /\ l = "true")
    /\ PatchSpace(u, s, pw, p, l)

DeleteAny == \E u \in UserIds, s \in SpaceIds : Issued(s) /\ DeleteSpace(u, s)

ParticipateAny ==
  \E u \in UserIds, s \in SpaceIds, pw \in SuppliedPasswords :
    Issued(s) /\ Participate(u, s, pw)

AcceptAny ==
  \E u \in UserIds, s \in SpaceIds, c \in CandIds : Issued(s) /\ Accept(u, s, c)

RejectAny ==
  \E u \in UserIds, s \in SpaceIds, c \in CandIds : Issued(s) /\ Reject(u, s, c)

CancelAny ==
  \E u \in UserIds, s \in SpaceIds, c \in CandIds : Issued(s) /\ Cancel(u, s, c)

GetPasswordAny == \E u \in UserIds, s \in SpaceIds : Issued(s) /\ GetPassword(u, s)

GetParticipantsAny == \E s \in SpaceIds : Issued(s) /\ GetParticipants(s)

GetCandidatesAny == \E s \in SpaceIds : Issued(s) /\ GetCandidates(s)

\* The body's password decides the branch and nothing else of a failed
\* request; the spaces of SpecTwo are not private, so none is drawn.
ParticipateThrowsAny ==
  \E u \in UserIds, s \in SpaceIds : Issued(s) /\ ParticipateThrows(u, s, Undefined)

\* The handlers treat all user ids alike, so the user who creates the first
\* space is called u1.
FirstOwner == "u1"

\* One space, created with any body and then patched and deleted at will;
\* the other id names a space that does not exist.
PostFirst ==
  \E l \in BodyFlags, p \in BodyFlags, pw \in BodyPasswords :
    NoSpaceYet /\ PostSpace(FirstOwner, l, p, pw)

Next ==
  \/ PostFirst
  \/ PatchAny
  \/ DeleteAny
  \/ GetPasswordAny
  \/ ParticipateAny
  \/ AcceptAny
  \/ RejectAny
  \/ CancelAny

Spec == Init /\ [][Next]_vars

\* Two spaces, each created open or with a lobby and never patched.
PostOpen ==
  \E u \in UserIds, l \in {"true", "false"} :
    /\ NoSpaceYet => u = FirstOwner
    /\ PostSpace(u, l, "false", Undefined)

NextTwo ==
  \/ PostOpen
  \/ ParticipateAny
  \/ ParticipateThrowsAny
  \/ GetParticipantsAny
  \/ GetCandidatesAny
  \/ AcceptAny
  \/ RejectAny
  \/ CancelAny

SpecTwo == Init /\ [][NextTwo]_vars

\* --------------------------------------------------------------- SpecConc
\* POST /spaces/:id/participate, one step per awaited store operation.
\* Between two awaits the handler runs without interruption, so the branch
\* is chosen in the step that loads the space.
Slots == 1..MaxInflight

Idle == [pc |-> "idle"]

\* Requests that have still to call Participate.create().
PendingCreates == Cardinality({r \in Slots : inflight[r].pc \in {"deleteMany", "create"}})

\* await Space.findById(spaceId), then the checks that follow it.
ParticipateFind(r, u, s, pw) ==
  LET space  == Space_findById(s)
      branch == ParticipateBranch(space, u, pw)
      call(pc, st) == [pc |-> pc, userId |-> u, spaceId |-> s, status |-> st]
  IN
  /\ inflight[r] = Idle
  /\ branch \in AcceptBranches \cup {"queue"} => nextId + PendingCreates <= MaxRecs
  /\ CASE branch = "notfound" ->
            /\ last' = Done("participate", u, s, SpaceNotExist("param.id"), NoCand, "")
            /\ UNCHANGED inflight
       [] branch = "wrongPassword" ->
            /\ last' = Done("participate", u, s, PasswordWrong, NoCand, "")
            /\ UNCHANGED inflight
       [] branch = "queue" ->
            /\ inflight' = [inflight EXCEPT ![r] = call("deleteMany", "WAITING")]
            /\ UNCHANGED last
       [] OTHER ->
            /\ inflight' = [inflight EXCEPT ![r] = call("create", "ACCEPTED")]
            /\ UNCHANGED last
  /\ UNCHANGED <<spaces, parts, nextId, users, client>>

\* await Participate.deleteMany({ userId, spaceId })
ParticipateDeleteMany(r) ==
  /\ inflight[r].pc = "deleteMany"
  /\ parts' = Participate_deleteMany(parts, inflight[r].userId, inflight[r].spaceId)
  /\ inflight' = [inflight EXCEPT ![r].pc = "create"]
  /\ UNCHANGED <<spaces, nextId, last, users, client>>

\* await Participate.create({ userId, spaceId, status }), then the response.
ParticipateCreate(r) ==
  /\ inflight[r].pc = "create"
  /\ parts' = Participate_create(parts, nextId, inflight[r].userId, inflight[r].spaceId,
                                 inflight[r].status)
  /\ nextId' = nextId + 1
  /\ last' = Done("participate", inflight[r].userId, inflight[r].spaceId, Ok, nextId,
                  inflight[r].status)
  /\ inflight' = [inflight EXCEPT ![r] = Idle]
  /\ UNCHANGED <<spaces, users, client>>

ParticipateFindAny ==
  \E r \in Slots, u \in UserIds, s \in SpaceIds, pw \in SuppliedPasswords :
    ParticipateFind(r, u, s, pw)

ParticipateDeleteManyAny == \E r \in Slots : ParticipateDeleteMany(r)

ParticipateCreateAny == \E r \in Slots : ParticipateCreate(r)

\* One space, created open or with a lobby.
PostFirstOpen == NoSpaceYet /\ PostOpen

NextConc ==
  \/ PostFirstOpen
  \/ DeleteAny
  \/ GetParticipantsAny
  \/ GetCandidatesAny
  \/ ParticipateFindAny
  \/ ParticipateDeleteManyAny
  \/ ParticipateCreateAny
  \/ AcceptAny
  \/ RejectAny
  \/ CancelAny

SpecConc == Init /\ [][NextConc]_vars

\* --------------------------------------------------------------- SpecRace
\* accept, reject and cancel, one step per awaited store operation.
StatusOf(op) ==
  CASE op = "accept" -> "ACCEPTED"
    [] op = "reject" -> "REJECTED"
    [] op = "cancel" -> "CANCELED"

CandOps == {"accept", "reject", "cancel"}

\* Request slots are interchangeable: a new request takes the first idle one.
FirstIdle(r) == inflight[r] = Idle /\ \A q \in 1..(r - 1) : inflight[q] # Idle

\* await Space.findById(spaceId) and the check of its result.
CandFindSpace(r, op, u, s, c) ==
  LET space == Space_findById(s) IN
  /\ FirstIdle(r)
  /\ IF SpaceMissing(space)
     THEN /\ last' = Done(op, u, s, SpaceNotExist("param.spaceId"), c, "")
          /\ UNCHANGED inflight
     ELSE /\ inflight' = [inflight EXCEPT ![r] =
                 [pc |-> "findCand", op |-> op, userId |-> u, spaceId |-> s, cand |-> c,
                  ownerId |-> space.ownerId]]
          /\ UNCHANGED last
  /\ UNCHANGED <<spaces, parts, nextId, users, client>>

\* await Participate.findById(candId), the check of its result and, in accept
\* and reject, the comparison of the caller with the owner of the loaded space.
CandFindById(r) ==
  LET call == inflight[r]
      participate == Participate_findById(parts, call.cand)
      reply(res) == /\ last' = Done(call.op, call.userId, call.spaceId, res, call.cand, "")
                    /\ inflight' = [inflight EXCEPT ![r] = Idle]
  IN
  /\ inflight[r].pc = "findCand"
  /\ IF participate = {} THEN reply(CandNotExist)
     ELSE IF call.op # "cancel" /\ call.ownerId # call.userId
       THEN reply(Forbidden("param.spaceId", "Only owner can accept"))
     ELSE /\ inflight' = [inflight EXCEPT ![r].pc = "write"]
          /\ UNCHANGED last
  /\ UNCHANGED <<spaces, parts, nextId, users, client>>

\* await Participate.updateOne({ _id: candId }, { status }), then the response.
CandUpdateOne(r) ==
  LET call == inflight[r] IN
  /\ inflight[r].pc = "write"
  /\ parts' = Participate_updateOne(parts, call.cand, StatusOf(call.op))
  /\ last' = Done(call.op, call.userId, call.spaceId, Ok, call.cand, "")
  /\ inflight' = [inflight EXCEPT ![r] = Idle]
  /\ UNCHANGED <<spaces, nextId, users, client>>

\* The user who asks to enter the owner's space.
Requester == "u2"

\* Calls on different records read and write different documents, so the
\* calls in flight at one time name one record; cancel never reads
\* req.ctx.userId and is drawn with one caller, the requester.
CandFindSpaceAny ==
  \E r \in Slots, op \in CandOps, u \in UserIds, s \in SpaceIds, c \in CandIds :
    /\ op = "cancel" => u = Requester
    /\ \A q \in Slots : inflight[q] # Idle => inflight[q].cand = c
    /\ CandFindSpace(r, op, u, s, c)

CandFindByIdAny == \E r \in Slots : CandFindById(r)

CandUpdateOneAny == \E r \in Slots : CandUpdateOne(r)

\* A participate request of the requester; the space is not private and the
\* body carries no password.
ParticipateRequester == \E s \in SpaceIds : Participate(Requester, s, Undefined)

PostLobby == NoSpaceYet /\ PostSpace(FirstOwner, "true", "false", Undefined)

\* One lobby space, which its owner may delete; the requester's participate
\* requests run as one step each (a retry discards the earlier record).
NextRace ==
  \/ PostLobby
  \/ DeleteAny
  \/ ParticipateRequester
  \/ CandFindSpaceAny
  \/ CandFindByIdAny
  \/ CandUpdateOneAny

SpecRace == Init /\ [][NextRace]_vars

\* ----------------------------------------------------------- POST /login
\* The username of a login body: the user's vmeetingId itself or another name.
LoginNames(v) == {v, "room"}

\* The personal space Space.create() is asked to store: name username,
\* isPersonal true, privateYN and lobbyYN false, no password.
PersonalSpaceDoc(username, owner) ==
  [SpaceDoc(username, owner, FALSE, FALSE, Undefined) EXCEPT !.isPersonal = TRUE]

\* The vmeetingId of the verified token stands for the user's _id as well.
\* users[0] is undefined when User.find() returned no document, and the schema
\* requires ownerId and a unique name: Space.create() then throws and the
\* handler answers 500 (the User document it created stays).
Login(v, username) ==
  LET existed == v \in users
      personalSpace == {s \in SpaceIds : spaces[s].exists /\ spaces[s].name = v}
      ownerId == IF existed THEN v ELSE Undefined
      nameTaken == \E s \in SpaceIds : spaces[s].exists /\ spaces[s].name = username
      token == /\ last' = Done("login", v, Undefined, Ok, NoCand, "")
               /\ client' = [client EXCEPT ![v].jwt = TRUE]
  IN
  /\ users' = users \cup {v}
  /\ IF personalSpace # {} THEN token /\ UNCHANGED spaces
     ELSE IF ownerId = Undefined \/ nameTaken
       THEN /\ last' = Done("login", v, Undefined, ServerError, NoCand, "")
            /\ UNCHANGED <<spaces, client>>
     ELSE /\ \E s \in SpaceIds : ~spaces[s].exists
          /\ spaces' = [spaces EXCEPT ![FreshSpace] = PersonalSpaceDoc(username, ownerId)]
          /\ token
  /\ UNCHANGED <<parts, nextId, inflight>>

\* ------------------------------------------------------------- the client
\* Passwords of the client's participate form (a string, '' by default).
FormPasswords == {"", "a"}

\* Variant: the owner's exit deletes a personal space as well.
ExitDeletes_anyOwned(cl, u) == cl.curSpace.exists /\ u = cl.curSpace.ownerId

\* onTryExitSpace: `decoded.userId === spaceOwnerId && !curSpace.get().isPersonal`
ExitDeletes(cl, u) ==
  cl.curSpace.exists /\ u = cl.curSpace.ownerId /\ ~cl.curSpace.isPersonal

\* Variant: the current space is set whenever the request is answered 200.
OnParticipateOut_anyStatus(u, spaceInfo, pw, known) ==
  LET out  == ParticipateOut(u, spaceInfo.space.id, pw)
      same == [parts |-> parts, nextId |-> nextId, last |-> last,
               curSpace |-> client[u].curSpace, warp |-> FALSE, result |-> FALSE]
  IN
  IF ~client[u].jwt THEN same
  ELSE IF out.last.res # Ok THEN [same EXCEPT !.last = out.last]
  ELSE IF known
    THEN [parts |-> out.parts, nextId |-> out.nextId, last |-> out.last,
          curSpace |-> spaceInfo.space, warp |-> TRUE, result |-> TRUE]
  ELSE [same EXCEPT !.parts = out.parts, !.nextId = out.nextId, !.last = out.last]

\* onParticipate(spaceInfo, form) of user u: what the participate request, if
\* one is sent, leaves in the store, the current space afterwards, whether
\* the warp messages are sent and the `result` of the value returned.  known
\* says whether spaceTypes holds the type of the space.  A request answered
\* with an error throws into the catch block.
OnParticipateOut(u, spaceInfo, pw, known) ==
  LET out  == ParticipateOut(u, spaceInfo.space.id, pw)
      same == [parts |-> parts, nextId |-> nextId, last |-> last,
               curSpace |-> client[u].curSpace, warp |-> FALSE, result |-> FALSE]
  IN
  IF ~client[u].jwt THEN same
  ELSE IF out.last.res # Ok THEN [same EXCEPT !.last = out.last]
  ELSE IF out.last.status = "ACCEPTED" /\ known
    THEN [parts |-> out.parts, nextId |-> out.nextId, last |-> out.last,
          curSpace |-> spaceInfo.space, warp |-> TRUE, result |-> TRUE]
  ELSE [same EXCEPT !.parts = out.parts, !.nextId = out.nextId, !.last = out.last]

\* onTryEnterSpace with a form: the space is fetched and, unless the modal
\* is opened first, onParticipate is called with it.  A get answered with an
\* error throws and leaves the client as it was.
TryEnterSpace(u, s, pw, known) ==
  LET spaceInfo == GetSpaceOut(s)
      askFirst == /\ spaceInfo.space.ownerId # u /\ pw = ""
                  /\ (spaceInfo.space.privateYN \/ spaceInfo.space.lobbyYN)
      out == OnParticipateOut(u, spaceInfo, pw, known)
  IN
  /\ client[u].jwt
  /\ IF spaceInfo.res # Ok \/ askFirst
     THEN /\ last' = Done("getSpace", u, s, spaceInfo.res, NoCand, "")
          /\ UNCHANGED <<parts, nextId, client>>
     ELSE /\ ParticipateEnabled(u, s, pw)
          /\ parts' = out.parts /\ nextId' = out.nextId /\ last' = out.last
          /\ client' = [client EXCEPT ![u].curSpace = out.curSpace]
  /\ UNCHANGED <<spaces, inflight, users>>

\* onTryExitSpace: the delete request, when one is sent, and then
\* curSpace.set({}); a delete answered with an error throws before that.
TryExitSpace(u) ==
  /\ client[u].jwt
  /\ IF ExitDeletes(client[u], u)
     THEN LET out == DeleteSpaceOut(u, client[u].curSpace.id) IN
          /\ spaces' = out.spaces /\ last' = out.last
          /\ client' = IF out.last.res = Ok THEN [client EXCEPT ![u].curSpace = NoDoc]
                       ELSE client
     ELSE /\ client' = [client EXCEPT ![u].curSpace = NoDoc]
          /\ UNCHANGED <<spaces, last>>
  /\ UNCHANGED <<parts, nextId, inflight, users>>

LoginAny == \E v \in UserIds : \E username \in LoginNames(v) : Login(v, username)

TryEnterSpaceAny ==
  \E u \in UserIds, s \in SpaceIds, pw \in FormPasswords, known \in BOOLEAN :
    TryEnterSpace(u, s, pw, known)

TryExitSpaceAny == \E u \in UserIds : TryExitSpace(u)

\* The names asked for are usernames, as the client's personal-room link does.
GetSpaceByNameAny ==
  \E v \in UserIds : \E n \in LoginNames(v) : GetSpaceByName(n)

\* A patch whose body is { lobbyYN } alone.
PatchLobby ==
  \E u \in UserIds, s \in SpaceIds, l \in {"true", "false"} :
    /\ PatchReadsBody(u, s) \/ l = "true"
    /\ PatchSpace(u, s, Undefined, Undefined, l)

\* Logins, spaces posted open or with a lobby, clients entering and leaving,
\* and patch and delete requests sent without the client.
NextPersonal ==
  \/ LoginAny
  \/ PostOpen
  \/ PatchLobby
  \/ DeleteAny
  \/ TryEnterSpaceAny
  \/ TryExitSpaceAny
  \/ ListSpaces
  \/ GetSpaceByNameAny

SpecPersonal == Init /\ [][NextPersonal]_vars

\* ============================================================= properties
InUse(s) == spaces[s].exists /\ spaces[s].useYN

TypeOK ==
  /\ \A s \in SpaceIds : spaces[s].exists =>
        /\ spaces[s].ownerId \in UserIds
        /\ spaces[s].password \in BodyPasswords
  /\ \A p \in parts : p.id \in CandIds /\ p.id < nextId /\ p.status \in Statuses
  /\ \A p, q \in parts : p.id = q.id => p = q
  /\ nextId \in 1..(MaxRecs + 1)

\* C1: accept and reject change a record's status only when the acting user
\* owns the space the record belongs to (the record's spaceId).
C1_DecideOnlyByOwnerOfRecordSpace ==
  [][\A u \in UserIds, s \in SpaceIds, c \in CandIds :
       (Accept(u, s, c) \/ Reject(u, s, c)) /\ parts' # parts =>
         \A p \in Participate_findById(parts, c) :
           spaces[p.spaceId].exists /\ spaces[p.spaceId].ownerId = u]_vars

\* C2: a record whose status is ACCEPTED, REJECTED or CANCELED never changes
\* status again.
C2_TerminalStatusesStay ==
  [][\A p \in parts : p.status \in {"ACCEPTED", "REJECTED", "CANCELED"} =>
       \A q \in parts' : q.id = p.id => q.status = p.status]_vars

\* C3: on an in-use lobby space a non-owner's participate request is answered
\* WAITING and creates no ACCEPTED record whenever the space is not private or
\* the supplied password differs from the stored one.
C3_LobbyQueues ==
  \A u \in UserIds, s \in SpaceIds, pw \in SuppliedPasswords :
    ( /\ InUse(s) /\ spaces[s].lobbyYN /\ u # spaces[s].ownerId
      /\ (~spaces[s].privateYN \/ pw # spaces[s].password) ) =>
      LET out == ParticipateOut(u, s, pw) IN
      /\ out.last.res = Ok /\ out.last.status = "WAITING"
      /\ \A p \in out.parts \ parts : p.status # "ACCEPTED"

\* C3 witness: a non-owner was just queued on a private lobby space whose
\* stored password is a real one (so the supplied one was wrong).
C3_Witness ==
  /\ last.op = "participate" /\ last.status = "WAITING"
  /\ \E p \in parts :
       /\ p.id = last.cand /\ p.status = "WAITING"
       /\ spaces[p.spaceId].lobbyYN /\ spaces[p.spaceId].privateYN
       /\ spaces[p.spaceId].password = "a"
       /\ p.userId # spaces[p.spaceId].ownerId

\* C4: on an in-use private space a non-owner's participate request is
\* answered ACCEPTED if and only if the supplied password equals the stored one.
C4_PrivateAcceptsIffPasswordEqual ==
  [][\A u \in UserIds, s \in SpaceIds, pw \in SuppliedPasswords :
       ( /\ InUse(s) /\ spaces[s].privateYN /\ u # spaces[s].ownerId
         /\ Participate(u, s, pw) ) =>
         (last'.status = "ACCEPTED" <=> pw = spaces[s].password)]_vars

\* C5: on every in-use space the owner's participate request is answered
\* ACCEPTED and adds one ACCEPTED record, deleting nothing, whatever the
\* flags and the supplied password.
C5_OwnerAccepted ==
  \A u \in UserIds, s \in SpaceIds, pw \in SuppliedPasswords :
    (InUse(s) /\ u = spaces[s].ownerId) =>
      LET out == ParticipateOut(u, s, pw) IN
      /\ out.last = Done("participate", u, s, Ok, nextId, "ACCEPTED")
      /\ out.parts = parts \cup {ParticipateDoc(nextId, u, s, "ACCEPTED")}
      /\ Cardinality(out.parts) = Cardinality(parts) + 1

\* C5 witness: the owner of a private lobby space was just admitted.
C5_Witness ==
  /\ last.op = "participate" /\ last.status = "ACCEPTED"
  /\ \E p \in parts :
       /\ p.id = last.cand /\ p.status = "ACCEPTED"
       /\ p.userId = spaces[p.spaceId].ownerId
       /\ spaces[p.spaceId].lobbyYN /\ spaces[p.spaceId].privateYN

\* C6: on an in-use space with lobbyYN=false and privateYN=false every
\* participate request is answered ACCEPTED, whatever password is supplied.
C6_OpenAccepts ==
  \A u \in UserIds, s \in SpaceIds, pw \in SuppliedPasswords :
    (InUse(s) /\ ~spaces[s].lobbyYN /\ ~spaces[s].privateYN) =>
      LET out == ParticipateOut(u, s, pw) IN
      /\ out.last.res = Ok /\ out.last.status = "ACCEPTED"
      /\ ParticipateDoc(out.last.cand, u, s, "ACCEPTED") \in out.parts

\* C6 witness: a non-owner was just admitted to an open space that stores a
\* password (left over from its creation or an earlier patch).
C6_Witness ==
  /\ last.op = "participate" /\ last.status = "ACCEPTED"
  /\ \E p \in parts :
       /\ p.id = last.cand /\ p.userId # spaces[p.spaceId].ownerId
       /\ ~spaces[p.spaceId].lobbyYN /\ ~spaces[p.spaceId].privateYN
       /\ spaces[p.spaceId].password = "a"

\* C7: on a private space without lobby a non-owner's participate request
\* with a password different from the stored one returns an error and leaves
\* the set of records as it was.
C7_WrongPasswordNoRecord ==
  \A u \in UserIds, s \in SpaceIds, pw \in SuppliedPasswords :
    ( /\ InUse(s) /\ ~spaces[s].lobbyYN /\ spaces[s].privateYN
      /\ u # spaces[s].ownerId /\ pw # spaces[s].password ) =>
      LET out == ParticipateOut(u, s, pw) IN
      /\ out.last.res.code = 400 /\ out.last.res = PasswordWrong
      /\ out.last.cand = NoCand /\ out.last.status = ""
      /\ out.parts = parts /\ out.nextId = nextId

\* C7 witness: a wrong-password answer was just sent while records exist.
C7_Witness ==
  /\ last.op = "participate" /\ last.res = PasswordWrong
  /\ parts # {}

\* The records of one (user, space) pair, and all the others.
PairOf(ps, u, s) == {p \in ps : p.userId = u /\ p.spaceId = s}
OthersOf(ps, u, s) == ps \ PairOf(ps, u, s)

\* C8: a queued participate request that runs with no other request's store
\* operations inside it leaves exactly one record of its (user, space) pair,
\* the new WAITING one; every earlier record of the pair is gone and the
\* records of the other pairs are as before.
C8_QueueSupersedes ==
  \A u \in UserIds, s \in SpaceIds, pw \in SuppliedPasswords :
    LET out == ParticipateOut(u, s, pw) IN
    (InUse(s) /\ out.last.status = "WAITING") =>
      /\ PairOf(out.parts, u, s) = {ParticipateDoc(nextId, u, s, "WAITING")}
      /\ out.last.cand = nextId
      /\ PairOf(out.parts, u, s) \cap parts = {}
      /\ \A p \in PairOf(parts, u, s) : \A q \in out.parts : q.id # p.id
      /\ OthersOf(out.parts, u, s) = OthersOf(parts, u, s)

\* C8 witness: the second request of a pair was just queued; the record of
\* the first one has been deleted.
C8_Witness ==
  /\ last.op = "participate" /\ last.status = "WAITING" /\ last.cand = 2
  /\ \A p \in parts : p.id # 1
  /\ \E p \in parts : p.id = 2 /\ p.status = "WAITING"

\* C9: when a queued request reaches its create step while a WAITING record of
\* the same pair exists (the other request's deleteMany ran before that record
\* was created), the create adds a second WAITING record of the pair.
C9_CreateAfterBothDeletes ==
  [][\A r \in Slots :
       ( /\ inflight[r].pc = "create" /\ inflight[r].status = "WAITING"
         /\ \E p \in PairOf(parts, inflight[r].userId, inflight[r].spaceId) :
              p.status = "WAITING"
         /\ ParticipateCreate(r) ) =>
         Cardinality({p \in PairOf(parts', inflight[r].userId, inflight[r].spaceId) :
                        p.status = "WAITING"}) >= 2]_vars

\* C9 witness: two WAITING records of the same (user, space) pair.
C9_Witness ==
  \E p, q \in parts :
    /\ p.id # q.id /\ p.userId = q.userId /\ p.spaceId = q.spaceId
    /\ p.status = "WAITING" /\ q.status = "WAITING"

\* With one request after another no pair ever has two WAITING records.
AtMostOneWaitingPerPair ==
  \A p, q \in parts :
    (p.userId = q.userId /\ p.spaceId = q.spaceId /\ p.status = "WAITING"
       /\ q.status = "WAITING") => p = q

\* C10: a record's status becomes CANCELED only through a cancel call made by
\* the user who created the record.
C10_CancelOnlyByRequester ==
  [][\A u \in UserIds, s \in SpaceIds, c \in CandIds :
       (Cancel(u, s, c) /\ parts' # parts) =>
         \A p \in Participate_findById(parts, c) : p.userId = u]_vars

\* The space named in a request has a document whose owner is u.
OwnerOf(u, s) == spaces[s].exists /\ spaces[s].ownerId = u

DecideOps == {<<"accept", "ACCEPTED">>, <<"reject", "REJECTED">>}

\* C11 (as stated): every accept or reject call by a user who is not the
\* owner of the space named in the request is answered Forbidden and leaves
\* every record unchanged, whatever the state of the space and whether or not
\* the candidate record exists.
C11_NonOwnerAlwaysForbidden ==
  [][\A u \in UserIds, s \in SpaceIds, c \in CandIds :
       (~OwnerOf(u, s) /\ (Accept(u, s, c) \/ Reject(u, s, c))) =>
         (last'.res.code = 403 /\ parts' = parts)]_vars

\* C11 (amended): an accept or reject call by a user who is not the owner of
\* the space named in the request leaves every record unchanged; it is
\* answered Forbidden when the space is in use and the candidate record
\* exists, with the space-not-found error when the space does not exist or is
\* soft-deleted, and with the candidate-not-found error when the space is in
\* use and the record does not exist.
C11_NonOwnerNeverMutates ==
  \A u \in UserIds, s \in SpaceIds, c \in CandIds, d \in DecideOps :
    ~OwnerOf(u, s) =>
      LET out == DecideOut(d[1], d[2], u, s, c) IN
      /\ out.parts = parts
      /\ out.last.res =
           IF ~InUse(s) THEN SpaceNotExist("param.spaceId")
           ELSE IF Participate_findById(parts, c) = {} THEN CandNotExist
           ELSE Forbidden("param.spaceId", "Only owner can accept")

\* C11 witness: a non-owner's accept or reject of an existing WAITING record
\* of an in-use space was just answered Forbidden, the record still WAITING.
C11_Witness ==
  /\ last.op \in {"accept", "reject"} /\ last.res.code = 403
  /\ InUse(last.space) /\ last.user # spaces[last.space].ownerId
  /\ \E p \in parts : p.id = last.cand /\ p.status = "WAITING"

\* C12: a participate, accept, reject or cancel call that names a space which
\* does not exist or is soft-deleted, and an accept, reject or cancel call that
\* names a candidate record which does not exist, returns a not-found error
\* (400 INVALID_INPUT) and leaves the records and their statuses unchanged.
C12_NotFoundLeavesRecords ==
  \A u \in UserIds, s \in SpaceIds :
    /\ ~InUse(s) =>
         /\ \A pw \in SuppliedPasswords :
              /\ ParticipateOut(u, s, pw).last.res = SpaceNotExist("param.id")
              /\ ParticipateOut(u, s, pw).parts = parts
              /\ ParticipateOut(u, s, pw).nextId = nextId
         /\ \A c \in CandIds :
              /\ \A d \in DecideOps :
                   /\ DecideOut(d[1], d[2], u, s, c).last.res = SpaceNotExist("param.spaceId")
                   /\ DecideOut(d[1], d[2], u, s, c).parts = parts
              /\ CancelOut(u, s, c).last.res = SpaceNotExist("param.spaceId")
              /\ CancelOut(u, s, c).parts = parts
    /\ InUse(s) =>
         \A c \in CandIds : Participate_findById(parts, c) = {} =>
           /\ \A d \in DecideOps :
                /\ DecideOut(d[1], d[2], u, s, c).last.res = CandNotExist
                /\ DecideOut(d[1], d[2], u, s, c).parts = parts
           /\ CancelOut(u, s, c).last.res = CandNotExist
           /\ CancelOut(u, s, c).parts = parts

\* C12 witness: a call on a soft-deleted space that has records was just
\* answered with the space-not-found error.
C12_Witness ==
  /\ last.op \in {"participate", "accept", "reject", "cancel"}
  /\ last.res.code = 400
  /\ \E it \in last.res.error : it.message = "Space is not exist"
  /\ spaces[last.space].exists /\ ~spaces[last.space].useYN
  /\ \E p \in parts : p.spaceId = last.space

\* C13: a participate request answered ACCEPTED adds exactly one new record,
\* ACCEPTED, of (requester, space), returns its id as candId and deletes or
\* modifies no existing record; repeated accepted requests of one pair
\* accumulate ACCEPTED records.
C13_AcceptedAddsOneRecord ==
  \A u \in UserIds, s \in SpaceIds, pw \in SuppliedPasswords :
    LET out == ParticipateOut(u, s, pw) IN
    out.last.status = "ACCEPTED" =>
      /\ out.last.res = Ok /\ out.last.cand = nextId
      /\ \A p \in parts : p.id # nextId
      /\ out.parts = parts \cup {ParticipateDoc(nextId, u, s, "ACCEPTED")}
      /\ Cardinality(out.parts) = Cardinality(parts) + 1
      /\ Cardinality(PairOf(out.parts, u, s)) = Cardinality(PairOf(parts, u, s)) + 1

\* C13 witness: the second accepted request of a non-owner for one space was
\* just answered; both ACCEPTED records of the pair are in the store.
C13_Witness ==
  /\ last.op = "participate" /\ last.status = "ACCEPTED" /\ last.cand = 2
  /\ \E p, q \in parts :
       /\ p.id = 1 /\ q.id = 2 /\ p.status = "ACCEPTED" /\ q.status = "ACCEPTED"
       /\ p.userId = q.userId /\ p.spaceId = q.spaceId
       /\ p.userId # spaces[p.spaceId].ownerId

\* C14: an accept by the owner on an existing record of an in-use space
\* succeeds and leaves the record ACCEPTED, and an accept that follows it at
\* once succeeds again and leaves the record ACCEPTED; the same for reject
\* with REJECTED.  (The second call writes the status the record has: it
\* leaves the store and the response as the first call left them.)
C14_DecideTwice ==
  /\ \A u \in UserIds, s \in SpaceIds, c \in CandIds, d \in DecideOps :
       (InUse(s) /\ OwnerOf(u, s) /\ Participate_findById(parts, c) # {}) =>
         LET out == DecideOut(d[1], d[2], u, s, c) IN
         /\ out.last.res = Ok
         /\ \A p \in Participate_findById(out.parts, c) : p.status = d[2]
         /\ Participate_findById(out.parts, c) # {}
  /\ \A d \in DecideOps :
       (last.op = d[1] /\ last.res = Ok) =>
         LET again == DecideOut(d[1], d[2], last.user, last.space, last.cand) IN
         /\ InUse(last.space) /\ OwnerOf(last.user, last.space)
         /\ \E p \in parts : p.id = last.cand /\ p.status = d[2]
         /\ again.last.res = Ok
         /\ again.parts = parts
         /\ \E p \in again.parts : p.id = last.cand /\ p.status = d[2]

\* C14 witness: an accept has just succeeded on a record that was created
\* WAITING, and the same call made again succeeds and changes nothing.
C14_Witness ==
  /\ last.op = "accept" /\ last.res = Ok
  /\ \E p \in parts :
       /\ p.id = last.cand /\ p.status = "ACCEPTED"
       /\ p.userId # spaces[p.spaceId].ownerId /\ spaces[p.spaceId].lobbyYN
  /\ AcceptOut(last.user, last.space, last.cand).last = last
  /\ AcceptOut(last.user, last.space, last.cand).parts = parts

OwnerOnly == Forbidden("param.id", "Only the owner can modify info")

Deleted(s) == spaces[s].exists /\ ~spaces[s].useYN

\* The space-not-found answer of each handler (the target names its parameter).
NotFoundOf(op) ==
  IF op \in {"accept", "reject", "cancel"} THEN SpaceNotExist("param.spaceId")
  ELSE SpaceNotExist("param.id")

\* C17: a delete request by the owner of a non-personal in-use space succeeds
\* and changes only useYN, to false: no space document is ever removed, the
\* other fields and all records stay; a deleted space never changes again
\* (useYN stays false), and every later get, patch, delete, participate,
\* accept, reject and cancel on it is answered with the space-not-found error.
C17_SoftDeleteIsFinal ==
  [][/\ \A s \in SpaceIds : spaces[s].exists => spaces'[s].exists
     /\ \A s \in SpaceIds : Deleted(s) => spaces'[s] = spaces[s]
     /\ ( /\ last'.op = "deleteSpace" /\ InUse(last'.space)
          /\ OwnerOf(last'.user, last'.space) /\ ~spaces[last'.space].isPersonal ) =>
          /\ last'.res = Ok
          /\ spaces' = [spaces EXCEPT ![last'.space].useYN = FALSE]
          /\ parts' = parts /\ nextId' = nextId
     /\ ( /\ last'.op \in {"patchSpace", "deleteSpace", "participate", "accept",
                           "reject", "cancel"}
          /\ Deleted(last'.space) ) =>
          (last'.res = NotFoundOf(last'.op) /\ parts' = parts /\ spaces' = spaces)
     /\ \A s \in SpaceIds :
          (spaces'[s].exists /\ ~spaces'[s].useYN) =>
            GetSpaceOut(s)' = [res |-> SpaceNotExist("param.id"), space |-> NoDoc]]_vars

\* C17 witness: a participate request on a deleted space that keeps its
\* records and its other fields was just answered with the not-found error.
C17_Witness ==
  /\ last.op = "participate" /\ last.res = SpaceNotExist("param.id")
  /\ Deleted(last.space) /\ spaces[last.space].privateYN
  /\ spaces[last.space].password = "a"
  /\ \E p \in parts : p.spaceId = last.space

\* C18: every space with privateYN=true has a non-empty password, in every
\* state reachable through space creation and any sequence of owner patches.
C18_PrivateHasPassword ==
  \A s \in SpaceIds :
    (spaces[s].exists /\ spaces[s].privateYN) => Truthy(spaces[s].password)

\* C19: a record is created WAITING or ACCEPTED, every record's status is one
\* of WAITING, ACCEPTED, REJECTED, CANCELED, and a record becomes REJECTED only
\* in a reject call and CANCELED only in a cancel call.
C19_StatusLifecycle ==
  [][\A q \in parts' :
       /\ q.status \in {"WAITING", "ACCEPTED", "REJECTED", "CANCELED"}
       /\ (\A p \in parts : p.id # q.id) =>
            (q.status \in {"WAITING", "ACCEPTED"} /\ last'.op = "participate")
       /\ \A p \in parts : (p.id = q.id /\ p.status # q.status) =>
            /\ q.status = "REJECTED" => (last'.op = "reject" /\ last'.cand = q.id)
            /\ q.status = "CANCELED" => (last'.op = "cancel" /\ last'.cand = q.id)
            /\ q.status = "ACCEPTED" => (last'.op = "accept" /\ last'.cand = q.id)
            /\ q.status # "WAITING"]_vars

\* C19 witness: one record has been rejected and another canceled.
C19_Witness ==
  /\ last.op \in {"reject", "cancel"} /\ last.res = Ok
  /\ \E p, q \in parts : p.status = "REJECTED" /\ q.status = "CANCELED"

\* The step is the store write of the call in slot r.
WriteStepOf(r) == inflight[r].pc = "write" /\ inflight'[r] = Idle

\* C20: with accept, reject and cancel calls interleaved on a record, each
\* write sets the record's status to the status of the call that makes it
\* and nothing else changes a record's status, so that once every call has
\* completed the status is the one of the call whose write came last; after
\* a concurrent accept and cancel on a WAITING record the status is ACCEPTED
\* or CANCELED.
C20_LastWriteWins ==
  [][/\ \A r \in Slots : WriteStepOf(r) =>
          /\ last'.op = inflight[r].op /\ last'.cand = inflight[r].cand /\ last'.res = Ok
          /\ \A p \in parts : p.id = inflight[r].cand =>
               [p EXCEPT !.status = StatusOf(inflight[r].op)] \in parts'
     /\ \A p \in parts, q \in parts' : (p.id = q.id /\ p.status # q.status) =>
          \E r \in Slots : /\ WriteStepOf(r) /\ inflight[r].cand = p.id
                           /\ q.status = StatusOf(inflight[r].op)
     /\ ( /\ \A r \in Slots : inflight'[r] = Idle
          /\ last'.op \in CandOps /\ last'.res = Ok ) =>
          \A q \in parts' : q.id = last'.cand => q.status = StatusOf(last'.op)]_vars

\* C20 witness: a cancel has just written CANCELED to a record while an
\* accept of the same record has passed its checks and still has to write.
C20_Witness ==
  /\ last.op = "cancel" /\ last.res = Ok
  /\ \E p \in parts : p.id = last.cand /\ p.status = "CANCELED"
  /\ \E r \in Slots : /\ inflight[r].pc = "write" /\ inflight[r].op = "accept"
                      /\ inflight[r].cand = last.cand

\* The other order: the accept has written and the cancel still has to.
C20_AcceptFirst ==
  /\ last.op = "accept" /\ last.res = Ok
  /\ \E p \in parts : p.id = last.cand /\ p.status = "ACCEPTED"
  /\ \E r \in Slots : /\ inflight[r].pc = "write" /\ inflight[r].op = "cancel"
                      /\ inflight[r].cand = last.cand

PersonalForbidden == Forbidden("param.id", "Personal space cannot be deleted")

\* The step completes onTryExitSpace for user u.
ExitStepOf(u) == client[u].curSpace.exists /\ ~client'[u].curSpace.exists

\* C16: every space with isPersonal=true has useYN=true: a delete request on
\* a personal space is answered Forbidden, also for its owner, and changes
\* nothing; useYN is cleared only by a delete request of the owner on a space
\* that is not personal; and the client's exit sends a delete request only
\* when the leaving user owns the current space and it is not personal.
C16_PersonalStaysInUse ==
  [][/\ \A s \in SpaceIds :
          (spaces'[s].exists /\ spaces'[s].isPersonal) => spaces'[s].useYN
     /\ ( /\ last'.op = "deleteSpace" /\ InUse(last'.space)
          /\ spaces[last'.space].isPersonal ) =>
          /\ spaces' = spaces
          /\ last'.res = IF OwnerOf(last'.user, last'.space)
                         THEN PersonalForbidden ELSE OwnerOnly
     /\ \A s \in SpaceIds : (InUse(s) /\ ~spaces'[s].useYN) =>
          /\ last'.op = "deleteSpace" /\ last'.space = s /\ last'.res = Ok
          /\ OwnerOf(last'.user, s) /\ ~spaces[s].isPersonal
     /\ \A u \in UserIds :
          /\ client[u].curSpace.exists =>
               (ExitDeletes(client[u], u) <=>
                  /\ OwnerOf(u, client[u].curSpace.id)
                  /\ ~spaces[client[u].curSpace.id].isPersonal)
          /\ ExitStepOf(u) =>
               IF OwnerOf(u, client[u].curSpace.id)
                  /\ ~spaces[client[u].curSpace.id].isPersonal
               THEN /\ last' = DeleteSpaceOut(u, client[u].curSpace.id).last
                    /\ last'.res = Ok
               ELSE spaces' = spaces /\ last' = last]_vars

\* C16 witness: the owner of a personal space has it as current space and a
\* delete request of theirs on it was just answered Forbidden; the space is
\* in use.
C16_Witness ==
  /\ last.op = "deleteSpace" /\ last.res = PersonalForbidden
  /\ spaces[last.space].isPersonal /\ spaces[last.space].useYN
  /\ spaces[last.space].ownerId = last.user
  /\ client[last.user].curSpace.exists
  /\ client[last.user].curSpace.id = last.space

\* C21: under every interleaving of accept or reject with a delete of the
\* same space, accept and reject never write a record's status while the
\* space is soft-deleted.
C21_NoWriteOnDeletedSpace ==
  [][\A r \in Slots :
       (WriteStepOf(r) /\ inflight[r].op \in {"accept", "reject"}) =>
         InUse(inflight[r].spaceId)]_vars

\* C22: a queued participate request either completes fully (the earlier
\* records of the pair deleted and one WAITING record created) or fails
\* leaving the store exactly as it was before the request.
C22_QueuedRequestAllOrNothing ==
  [][last'.op = "participate" =>
       /\ last'.status = "WAITING" =>
            /\ PairOf(parts', last'.user, last'.space) =
                 {ParticipateDoc(last'.cand, last'.user, last'.space, "WAITING")}
            /\ OthersOf(parts', last'.user, last'.space) =
                 OthersOf(parts, last'.user, last'.space)
       /\ last'.res # Ok => parts' = parts]_vars

\* C23: the response to a participate request with a wrong password on an
\* in-use private space without lobby is the response to a participate
\* request on a space that does not exist or is soft-deleted (same status
\* code, error type, target and message).
C23_WrongPasswordLooksLikeNotFound ==
  \A u \in UserIds, s, t \in SpaceIds, pw, pw2 \in SuppliedPasswords :
    ( /\ ParticipateBranch(Space_findById(s), u, pw) = "wrongPassword"
      /\ ~InUse(t) ) =>
      ParticipateOut(u, s, pw).last.res = ParticipateOut(u, t, pw2).last.res

\* The records of a space with one of the statuses given.
RecordsOf(s, sts) == {p \in parts : p.spaceId = s /\ p.status \in sts}

\* C24: for every in-use space the participants query returns exactly the
\* records whose spaceId is that space and whose status is ACCEPTED: no
\* record of another space, no WAITING, REJECTED or CANCELED record, and one
\* entry per record (a user with several ACCEPTED records appears as often).
C24_ParticipantsAreAccepted ==
  \A s \in SpaceIds : InUse(s) =>
    LET out == ParticipantsOut(s) IN
    /\ out.res = Ok
    /\ {e.participantId : e \in out.participants} = {p.id : p \in RecordsOf(s, {"ACCEPTED"})}
    /\ \A e \in out.participants : \E p \in parts :
         /\ p.id = e.participantId /\ p.userId = e.user
         /\ p.spaceId = s /\ p.status = "ACCEPTED"
    /\ \A u \in UserIds :
         Cardinality({e \in out.participants : e.user = u}) =
           Cardinality({p \in RecordsOf(s, {"ACCEPTED"}) : p.userId = u})

\* C24 witness: the participants query of an in-use space was just answered
\* with one entry while the store holds an ACCEPTED record of that space and
\* a record that is of another space or not ACCEPTED.
C24_Witness ==
  /\ last.op = "participants" /\ last.res = Ok /\ InUse(last.space)
  /\ \E p, q \in parts :
       /\ p.spaceId = last.space /\ p.status = "ACCEPTED"
       /\ q.spaceId # last.space \/ q.status # "ACCEPTED"
       /\ ParticipantsOut(last.space).participants = {ParticipantEntry(p)}

\* C25: for every in-use space the candidates query returns exactly the
\* records whose spaceId is that space and whose status is WAITING or
\* CANCELED, each with its status; no ACCEPTED or REJECTED record and no
\* record of another space.
C25_CandidatesAreWaitingOrCanceled ==
  \A s \in SpaceIds : InUse(s) =>
    LET out == CandidatesOut(s) IN
    /\ out.res = Ok
    /\ {e.participantId : e \in out.candidates} =
         {p.id : p \in RecordsOf(s, {"WAITING", "CANCELED"})}
    /\ Cardinality(out.candidates) = Cardinality(RecordsOf(s, {"WAITING", "CANCELED"}))
    /\ \A e \in out.candidates : \E p \in parts :
         /\ p.id = e.participantId /\ p.userId = e.user /\ p.status = e.status
         /\ p.spaceId = s /\ p.status \in {"WAITING", "CANCELED"}

\* C25 witness: the candidates query of an in-use space was just answered
\* with a CANCELED entry while the store holds another record, which is of
\* another space or ACCEPTED or REJECTED.
C25_Witness ==
  /\ last.op = "candidates" /\ last.res = Ok /\ InUse(last.space)
  /\ \E p, q \in parts :
       /\ p.spaceId = last.space /\ p.status = "CANCELED"
       /\ q.spaceId # last.space \/ q.status \in {"ACCEPTED", "REJECTED"}
       /\ CandidatesOut(last.space).candidates = {CandidateEntry(p)}

\* C26: after a non-owner's participate request on a lobby space was
\* answered WAITING with candId c, the owner's accept of c (record c still
\* as the request left it) succeeds: record c is ACCEPTED, the participants
\* query of the space returns it and the candidates query no longer does.
C26_AcceptMovesToParticipants ==
  \A u \in UserIds, s \in SpaceIds, c \in CandIds :
    ( /\ InUse(s) /\ OwnerOf(u, s) /\ spaces[s].lobbyYN
      /\ \E p \in parts : /\ p.id = c /\ p.spaceId = s
                          /\ p.status = "WAITING" /\ p.userId # u ) =>
      LET out == AcceptOut(u, s, c) IN
      /\ out.last.res = Ok
      /\ \A e \in ParticipantsOf(parts, s) : e.participantId # c
      /\ \E e \in CandidatesOf(parts, s) : e.participantId = c
      /\ \E q \in out.parts :
           /\ q.id = c /\ q.status = "ACCEPTED"
           /\ ParticipantEntry(q) \in ParticipantsOf(out.parts, s)
      /\ \A e \in CandidatesOf(out.parts, s) : e.participantId # c

\* C26 witness: the owner's accept of a non-owner's record of a lobby space
\* has just succeeded; the record is ACCEPTED, among the participants of the
\* space and not among its candidates.
C26_Witness ==
  /\ last.op = "accept" /\ last.res = Ok /\ InUse(last.space)
  /\ OwnerOf(last.user, last.space) /\ spaces[last.space].lobbyYN
  /\ \E p \in parts :
       /\ p.id = last.cand /\ p.spaceId = last.space /\ p.userId # last.user
       /\ p.status = "ACCEPTED"
       /\ ParticipantEntry(p) \in ParticipantsOut(last.space).participants
       /\ \A e \in CandidatesOut(last.space).candidates : e.participantId # p.id

\* C27: a cancel call succeeds and sets the record's status to CANCELED for
\* every caller whenever the space named in the request is in use and the
\* candidate record exists: the caller is compared neither with the record's
\* userId nor with the owner of the space, and the record's spaceId is not
\* compared with the space named in the request.
C27_CancelByAnyCaller ==
  \A u \in UserIds, s \in SpaceIds, c \in CandIds :
    (InUse(s) /\ Participate_findById(parts, c) # {}) =>
      LET out == CancelOut(u, s, c) IN
      /\ out.last.res = Ok
      /\ out.parts = Participate_updateOne(parts, c, "CANCELED")
      /\ \E q \in out.parts : q.id = c /\ q.status = "CANCELED"

\* C27 witness: a cancel has just succeeded that was made by a user who is
\* neither the record's requester nor the owner of the space named, and that
\* named a space other than the record's.
C27_Witness ==
  /\ last.op = "cancel" /\ last.res = Ok /\ InUse(last.space)
  /\ spaces[last.space].ownerId # last.user
  /\ \E p \in parts :
       /\ p.id = last.cand /\ p.status = "CANCELED"
       /\ p.userId # last.user /\ p.spaceId # last.space

\* C28: the stored password of a private space is never returned to a
\* requester other than the owner of the space: the space object of the get,
\* list, create and patch responses has no password field, and the password
\* query discloses the password only to the owner.
C28_PasswordOnlyToOwner ==
  \A u \in UserIds, s \in SpaceIds :
    /\ GetSpaceOut(s).res = Ok => "password" \notin DOMAIN GetSpaceOut(s).space
    /\ (InUse(s) /\ spaces[s].privateYN /\ u # spaces[s].ownerId) =>
         /\ GetPasswordOut(u, s).res # Ok
         /\ GetPasswordOut(u, s).password = Undefined

\* C29: under every interleaving, when an accept call returns success the
\* record identified by candId exists and has status ACCEPTED right after
\* the accept's write.
C29_AcceptSuccessMeansAccepted ==
  [][\A r \in Slots :
       (WriteStepOf(r) /\ inflight[r].op = "accept") =>
         /\ last'.op = "accept" /\ last'.res = Ok
         /\ \E q \in parts' : q.id = inflight[r].cand /\ q.status = "ACCEPTED"]_vars

\* C30: a successful accept, reject or cancel call changes only the status
\* field of the one record identified by candId: that record's userId and
\* spaceId, the number of records, every other record and every space are
\* unchanged.
C30_DecisionChangesOnlyStatus ==
  [][(last'.op \in CandOps /\ last'.res = Ok) =>
       /\ spaces' = spaces /\ nextId' = nextId
       /\ Cardinality(parts') = Cardinality(parts)
       /\ \A p \in parts :
            IF p.id = last'.cand
            THEN ParticipateDoc(p.id, p.userId, p.spaceId, StatusOf(last'.op)) \in parts'
            ELSE p \in parts'
       /\ \A q \in parts' : \E p \in parts : p.id = q.id]_vars

\* C30 witness: a reject has just succeeded on one of two records of the same
\* (user, space) pair; the other record is still ACCEPTED.
C30_Witness ==
  /\ last.op = "reject" /\ last.res = Ok
  /\ \E p, q \in parts :
       /\ p.id = last.cand /\ p.status = "REJECTED" /\ q.id # p.id
       /\ q.userId = p.userId /\ q.spaceId = p.spaceId /\ q.status = "ACCEPTED"
  /\ \E s, t \in SpaceIds : s # t /\ InUse(s) /\ InUse(t)

\* C31: every login request with a valid vmeeting token is answered with a
\* signed token and never with SERVER_ERROR, for a user's first login and
\* for every later one, whatever the username and the vmeetingId.
C31_LoginAlwaysToken ==
  [][\A v \in UserIds : \A username \in LoginNames(v) :
       Login(v, username) => (last'.res = Ok /\ client'[v].jwt)]_vars

\* The personal spaces a user owns.
PersonalSpacesOf(sp, u) ==
  {s \in SpaceIds : sp[s].exists /\ sp[s].isPersonal /\ sp[s].ownerId = u}

\* C32: after every login that returns a token a space with isPersonal=true,
\* privateYN=false, lobbyYN=false and useYN=true exists whose name is the
\* login's username and whose ownerId is the user logging in, and after any
\* sequence of logins each user owns at most one personal space.
C32_LoginLeavesOnePersonalSpace ==
  [][\A v \in UserIds : \A username \in LoginNames(v) :
       (Login(v, username) /\ last'.res = Ok) =>
         /\ \E s \in PersonalSpacesOf(spaces', v) :
              /\ spaces'[s].name = username /\ spaces'[s].useYN
              /\ ~spaces'[s].privateYN /\ ~spaces'[s].lobbyYN
         /\ \A u \in UserIds : Cardinality(PersonalSpacesOf(spaces', u)) <= 1]_vars

\* Some user owns two personal spaces.
C32_TwoPersonalSpaces == \E u \in UserIds : Cardinality(PersonalSpacesOf(spaces, u)) >= 2

\* C33: every handler sends exactly one response per request and then
\* stops: after an error response no store query and no second response is
\* attempted, the participants query on a space that does not exist or is
\* soft-deleted included.
C33_OneResponsePerRequest ==
  /\ last.op = "participants" =>
       LET out == ParticipantsOut(last.space) IN
       /\ out.sent = <<last.res.code>>
       /\ last.res # Ok => out.finds = 0
  /\ last.op = "candidates" =>
       LET out == CandidatesOut(last.space) IN
       /\ out.sent = <<last.res.code>>
       /\ last.res # Ok => out.finds = 0

\* The space object a client holds of a space it has fetched (the space may
\* have been deleted since).
FetchedInfo(s) == [res |-> Ok, space |-> SpaceRes(s, spaces[s])]

\* C34: the client sets its current space and sends the warp messages only
\* when the participate response has status ACCEPTED and the type of the
\* space is known; when the response is WAITING, when the request fails or
\* when no token is stored, the current space is unchanged and the result
\* reports failure.
C34_CurrentSpaceOnlyWhenAccepted ==
  \A u \in UserIds, s \in SpaceIds, pw \in FormPasswords, known \in BOOLEAN :
    spaces[s].exists =>
      LET res == ParticipateOut(u, s, pw).last
          out == OnParticipateOut(u, FetchedInfo(s), pw, known)
          entered == client[u].jwt /\ res.res = Ok /\ res.status = "ACCEPTED" /\ known
      IN
      /\ (out.warp \/ out.result \/ out.curSpace # client[u].curSpace) => entered
      /\ entered => (out.warp /\ out.result /\ out.curSpace = SpaceRes(s, spaces[s]))
      /\ (~client[u].jwt \/ res.res # Ok \/ res.status = "WAITING") =>
           (out.curSpace = client[u].curSpace /\ ~out.result /\ ~out.warp)
      /\ ~client[u].jwt => (out.parts = parts /\ out.last = last)

\* C34 witness: a user who is in a space has just been answered WAITING by
\* another space, and the current space is still the first one.
C34_Witness ==
  /\ last.op = "participate" /\ last.res = Ok /\ last.status = "WAITING"
  /\ client[last.user].jwt
  /\ client[last.user].curSpace.exists
  /\ client[last.user].curSpace.id # last.space
  /\ \E p \in parts : p.id = last.cand /\ p.userId = last.user /\ p.status = "WAITING"

\* C35: the space list query returns exactly the spaces with
\* isPersonal=false and useYN=true: a personal space and a soft-deleted space
\* never appear in it, while a personal space is still returned by the
\* get-by-id and get-by-name queries.
C35_ListHidesPersonalAndDeleted ==
  /\ ListSpacesOut.res = Ok
  /\ \A s \in SpaceIds :
       (\E e \in ListSpacesOut.spaces : e.id = s) <=>
         (spaces[s].exists /\ ~spaces[s].isPersonal /\ spaces[s].useYN)
  /\ \A e \in ListSpacesOut.spaces :
       /\ e = SpaceRes(e.id, spaces[e.id]) /\ ~e.isPersonal
       /\ \A f \in ListSpacesOut.spaces : f.id = e.id => f = e
  /\ \A s \in SpaceIds : (spaces[s].exists /\ spaces[s].isPersonal) =>
       /\ GetSpaceOut(s) = [res |-> Ok, space |-> SpaceRes(s, spaces[s])]
       /\ GetSpaceByNameOut(spaces[s].name) = [res |-> Ok, space |-> SpaceRes(s, spaces[s])]

\* C35 witness: the list query was just answered with one space while the
\* store also holds a personal space, which the get-by-name query returns.
C35_Witness ==
  /\ last.op = "listSpaces" /\ last.res = Ok
  /\ \E s, t \in SpaceIds :
       /\ spaces[s].exists /\ spaces[s].isPersonal
       /\ spaces[t].exists /\ ListSpacesOut.spaces = {SpaceRes(t, spaces[t])}
       /\ GetSpaceByNameOut(spaces[s].name).space.id = s

====
